---- MODULE Spec2Model ----
(***************************************************************************)
(* Model of IPython/zmq/parallel/engine.py: the Engine that registers with *)
(* a controller over the registrar stream, provisions its queue, control   *)
(* and task sockets from the registration reply, starts the Heart and the  *)
(* Kernel, and unregisters.                                                *)
(*                                                                         *)
(* Python values are encoded with uniform types:                           *)
(*   - a str that the code converts (the id, session.username) is a        *)
(*     sequence of one-character strings, so str() and int() are computed; *)
(*   - an address field of the reply is a string: MISSING when the key is  *)
(*     not in the content (attribute read raises AttributeError), "" when  *)
(*     it is present and falsy, BadAddr when connect() rejects it;         *)
(*   - an instance attribute that was never assigned (self.queue,          *)
(*     self.control, self.task_stream have no class-level default) is 0,   *)
(*     otherwise the 1-based index of its socket in `sockets`.             *)
(***************************************************************************)
EXTENDS Integers, Sequences, FiniteSets, TLC

\* ------------------------------------------------------------------ bounds
\* messages the controller puts on the registrar channel
MaxMsgs == 2
\* direct calls of register() besides the one start() makes
MaxCalls == 1
\* ticks of the Heart that are followed
MaxTicks == 3

\* ------------------------------------------------------------ Python values
MISSING == "<missing>"
BadAddr == "not-an-address"
GoodAddr(role) == "tcp://" \o role

DigitChars == <<"0", "1", "2", "3", "4", "5", "6", "7", "8", "9">>
IsDigit(c) == \E d \in 1..10 : DigitChars[d] = c
DigitVal(c) == (CHOOSE d \in 1..10 : DigitChars[d] = c) - 1

\* variant: the digits come out least significant first
RECURSIVE PyStrIntReversed(_)
PyStrIntReversed(n) ==
    IF n < 0 THEN <<"-">> \o PyStrIntReversed(-n)
    ELSE IF n < 10 THEN <<DigitChars[n + 1]>>
    ELSE <<DigitChars[(n % 10) + 1]>> \o PyStrIntReversed(n \div 10)

\* str(n) for an int n
RECURSIVE PyStrInt(_)
PyStrInt(n) ==
    IF n < 0 THEN <<"-">> \o PyStrInt(-n)
    ELSE IF n < 10 THEN <<DigitChars[n + 1]>>
    ELSE PyStrInt(n \div 10) \o <<DigitChars[(n % 10) + 1]>>

\* str(x) for the id of a reply: an int is formatted, a str is itself
PyStr(id) == IF id.k = "int" THEN PyStrInt(id.n) ELSE id.s

\* the characters str.isspace() holds: space, tab, newline, carriage return, form
\* feed and vertical tab (the last one written as the character itself)
WhitespaceChars == {" ", "\t", "\n", "\r", "\f", ""}
IsSpace(c) == c \in WhitespaceChars

RECURSIVE LStrip(_)
LStrip(s) == IF s # <<>> /\ IsSpace(Head(s)) THEN LStrip(Tail(s)) ELSE s
RECURSIVE RStrip(_)
RStrip(s) ==
    IF s # <<>> /\ IsSpace(s[Len(s)]) THEN RStrip(SubSeq(s, 1, Len(s) - 1)) ELSE s

RECURSIVE ParseDigits(_, _)
ParseDigits(s, acc) ==
    IF s = <<>> THEN acc ELSE ParseDigits(Tail(s), 10 * acc + DigitVal(Head(s)))

\* int(s) for a str s, as python 2 computes it (the module's imports are python 2
\* ones): whitespace is skipped at both ends and between the sign and the digits;
\* [ok |-> FALSE] stands for ValueError
PyInt(s) ==
    LET t == RStrip(LStrip(s))
        signed == t # <<>> /\ Head(t) \in {"+", "-"}
        body == IF signed THEN LStrip(Tail(t)) ELSE t
        ok == body # <<>> /\ \A i \in 1..Len(body) : IsDigit(body[i])
        mag == IF ok THEN ParseDigits(body, 0) ELSE 0
    IN  [ok |-> ok, v |-> IF signed /\ Head(t) = "-" THEN -mag ELSE mag]

\* ------------------------------------------------------------------- state
VARIABLES
    ident,          \* Engine.ident
    on_recv,        \* the registrar stream has complete_registration as its receive callback
    sent,           \* what session.send put on the registrar stream, in order
    inflight,       \* controller messages on the registrar channel, not yet dispatched
    ctlReply,       \* the reply content the controller holds for this engine
    username,       \* session.username
    queue,          \* Engine.queue
    control,        \* Engine.control
    task_stream,    \* Engine.task_stream
    heart,          \* Engine.heart
    kernel,         \* Engine.kernel
    sockets,        \* the sockets made with context.socket(), in order of creation
    log,            \* the calls complete_registration made, in order
    exc,            \* the exception the last Engine method raised, NoExc if it returned
    alive,          \* the process has not exited
    exit_code,      \* the argument of sys.exit once the process has exited
    dc,             \* the DelayedCallback of main has not fired yet
    calls,          \* direct calls of register() so far
    ticks,          \* the Heart's ticks so far: TRUE a pulse sent, FALSE a send that failed
    heart_id,       \* the heart_id argument of Engine.__init__, "" when not given
    sleeping        \* unregister() has sent its notice and is in time.sleep(1)

vars == <<ident, on_recv, sent, inflight, ctlReply, username, queue, control,
          task_stream, heart, kernel, sockets, log, exc, alive, exit_code, dc, calls,
          ticks, heart_id, sleeping>>

NoExc == ""
NoHeart == [set |-> FALSE, addrs |-> <<>>, heart_id |-> "", started |-> FALSE]
NoKernel == [set |-> FALSE, control |-> 0, queue |-> 0, task_stream |-> 0,
             started |-> FALSE]
\* session.username before any reply: StreamSession's default, not a number
DefaultUsername == <<"u", "s", "e", "r">>
\* str(uuid.uuid4()) when no ident is given
Uuid == "uuid4"

Ev(op, a, b) == [op |-> op, a |-> a, b |-> b]

\* the Engine's fields, as the record the methods below transform
Self ==
    [ident |-> ident, username |-> username, queue |-> queue, control |-> control,
     task_stream |-> task_stream, heart |-> heart, kernel |-> kernel,
     sockets |-> sockets, log |-> log, exc |-> exc]

\* Statement sequencing is written {stmt(x) : x \in {before}}: the Engine as the
\* statements before left it is evaluated once and handed to the next statement.
\* Only(S) is the element of the one-element set this gives.
Only(S) == CHOOSE r \in S : TRUE

\* an exception leaves the method: later statements do not run
Raise(e, name) == [e EXCEPT !.exc = name, !.log = Append(@, Ev("raise", name, ""))]

\* ------------------------------------------------- complete_registration
\* self.session.username = str(msg.content.id)
set_username(e, id) ==
    IF id.k = "missing" THEN Raise(e, "AttributeError")
    ELSE [e EXCEPT !.username = PyStr(id), !.log = Append(@, Ev("username", "", ""))]

\* variant: the socket is connected first and given its identity afterwards
provision_connect_first(e, role, attr, addr) ==
    IF e.exc # NoExc THEN e
    ELSE IF addr = MISSING THEN Raise(e, "AttributeError")
    ELSE IF addr = "" THEN e
    ELSE
        LET n == Len(e.sockets) + 1
            created == [e EXCEPT
                !.sockets = Append(@, [role |-> role, identity |-> "", peer |-> ""]),
                !.log = Append(@, Ev("socket", role, ""))]
            called == [created EXCEPT !.log = Append(@, Ev("connect", role, addr))]
        IN  IF addr = BadAddr THEN Raise(called, "ZMQError")
            ELSE [called EXCEPT
                    !.sockets[n].peer = addr,
                    !.sockets[n].identity = e.ident,
                    !.log = Append(@, Ev("setsockopt", role, e.ident)),
                    ![attr] = n]

\* variant: each socket takes the name of its role as identity
provision_tags_role(e, role, attr, addr) ==
    IF e.exc # NoExc THEN e
    ELSE IF addr = MISSING THEN Raise(e, "AttributeError")
    ELSE IF addr = "" THEN e
    ELSE
        LET n == Len(e.sockets) + 1
            created == [e EXCEPT
                !.sockets = Append(@, [role |-> role, identity |-> "", peer |-> ""]),
                !.log = Append(@, Ev("socket", role, ""))]
            tagged == [created EXCEPT
                !.sockets[n].identity = role,
                !.log = Append(@, Ev("setsockopt", role, role))]
            called == [tagged EXCEPT !.log = Append(@, Ev("connect", role, addr))]
        IN  IF addr = BadAddr THEN Raise(called, "ZMQError")
            ELSE [called EXCEPT !.sockets[n].peer = addr, ![attr] = n]

\* addr = msg.content.<role>; if addr: socket, setsockopt(IDENTITY), connect, ZMQStream
provision(e, role, attr, addr) ==
    IF e.exc # NoExc THEN e
    ELSE IF addr = MISSING THEN Raise(e, "AttributeError")
    ELSE IF addr = "" THEN e
    ELSE
        LET n == Len(e.sockets) + 1
            created == [e EXCEPT
                !.sockets = Append(@, [role |-> role, identity |-> "", peer |-> ""]),
                !.log = Append(@, Ev("socket", role, ""))]
            tagged == [created EXCEPT
                !.sockets[n].identity = e.ident,
                !.log = Append(@, Ev("setsockopt", role, e.ident))]
            called == [tagged EXCEPT !.log = Append(@, Ev("connect", role, addr))]
        IN  IF addr = BadAddr THEN Raise(called, "ZMQError")
            ELSE [called EXCEPT !.sockets[n].peer = addr, ![attr] = n]

\* variant: the Heart takes the heart_id the Engine was constructed with
start_heart_with_heart_id(e, hbs) ==
    IF e.exc # NoExc THEN e
    ELSE IF hbs.k = "missing" THEN Raise(e, "AttributeError")
    ELSE IF hbs.k = "none" THEN Raise(e, "TypeError")
    ELSE [e EXCEPT
            !.heart = [set |-> TRUE, addrs |-> hbs.v,
                       heart_id |-> IF heart_id # "" THEN heart_id ELSE e.ident,
                       started |-> TRUE],
            !.log = Append(@, Ev("heart.start", "",
                                 IF heart_id # "" THEN heart_id ELSE e.ident))]

\* hbs = msg.content.heartbeat; Heart(*map(str, hbs), heart_id=self.ident).start()
start_heart(e, hbs) ==
    IF e.exc # NoExc THEN e
    ELSE IF hbs.k = "missing" THEN Raise(e, "AttributeError")
    ELSE IF hbs.k = "none" THEN Raise(e, "TypeError")
    ELSE [e EXCEPT
            !.heart = [set |-> TRUE, addrs |-> hbs.v, heart_id |-> e.ident,
                       started |-> TRUE],
            !.log = Append(@, Ev("heart.start", "", e.ident))]

\* pub = ZMQStream(self.context.socket(zmq.PUB), self.loop)
make_pub(e) ==
    IF e.exc # NoExc THEN e
    ELSE [e EXCEPT
            !.sockets = Append(@, [role |-> "pub", identity |-> "", peer |-> ""]),
            !.log = Append(@, Ev("socket", "pub", ""))]

\* self.kernel = Kernel(session, self.control, self.queue, pub, self.task_stream, client)
\* self.kernel.start()
start_kernel(e) ==
    IF e.exc # NoExc THEN e
    ELSE IF e.control = 0 \/ e.queue = 0 \/ e.task_stream = 0
        THEN Raise(e, "AttributeError")
    ELSE [e EXCEPT
            !.kernel = [set |-> TRUE, control |-> e.control, queue |-> e.queue,
                        task_stream |-> e.task_stream, started |-> TRUE],
            !.log = Append(@, Ev("kernel.start", "", ""))]

\* the loop calls complete_registration(msg)
enter(e, msg) ==
    [e EXCEPT !.exc = NoExc,
              !.log = Append(@, Ev("complete_registration", msg.status, ""))]

\* print (msg): the method returns
finish(e) ==
    IF e.exc # NoExc THEN e ELSE [e EXCEPT !.log = Append(@, Ev("return", "", ""))]

\* variant: a failed registration is logged, not raised
cr_logs_failure(e0, msg) ==
    LET e == Only({enter(e0, msg)})
    IN  IF msg.status = "ok" THEN
            Only({finish(s7) : s7 \in
                 {start_kernel(s6) : s6 \in
                 {make_pub(s5) : s5 \in
                 {start_heart(s4, msg.heartbeat) : s4 \in
                 {provision(s3, "task", "task_stream", msg.task) : s3 \in
                 {provision(s2, "control", "control", msg.control) : s2 \in
                 {provision(s1, "queue", "queue", msg.queue) : s1 \in
                 {set_username(e, msg.id)}}}}}}}})
        ELSE [e EXCEPT !.log = Append(@, Ev("return", "", ""))]

\* variant: the channels are provisioned before the status is looked at
cr_provision_first(e0, msg) ==
    LET e == Only({enter(e0, msg)})
    IN  Only({finish(s7) : s7 \in
             {start_kernel(s6) : s6 \in
             {make_pub(s5) : s5 \in
             {start_heart(s1, msg.heartbeat) : s1 \in
             {(IF s4.exc # NoExc THEN s4
               ELSE IF msg.status = "ok" THEN set_username(s4, msg.id)
               ELSE Raise(s4, "Exception")) : s4 \in
             {provision(s3, "task", "task_stream", msg.task) : s3 \in
             {provision(s2, "control", "control", msg.control) : s2 \in
             {provision(e, "queue", "queue", msg.queue)}}}}}}}})

\* variant: the Heart is started as soon as the id is known, before the channels
cr_heart_first(e0, msg) ==
    LET e == Only({enter(e0, msg)})
    IN  IF msg.status = MISSING THEN Raise(e, "AttributeError")
        ELSE IF msg.status = "ok" THEN
            Only({finish(s7) : s7 \in
                 {start_kernel(s6) : s6 \in
                 {make_pub(s5) : s5 \in
                 {provision(s4, "task", "task_stream", msg.task) : s4 \in
                 {provision(s3, "control", "control", msg.control) : s3 \in
                 {provision(s2, "queue", "queue", msg.queue) : s2 \in
                 {start_heart(s1, msg.heartbeat) : s1 \in
                 {set_username(e, msg.id)}}}}}}}})
        ELSE Raise(e, "Exception")

\* variant: the username is set once the channels are open
cr_username_last(e0, msg) ==
    LET e == Only({enter(e0, msg)})
    IN  IF msg.status = MISSING THEN Raise(e, "AttributeError")
        ELSE IF msg.status = "ok" THEN
            Only({finish(s7) : s7 \in
                 {start_kernel(s6) : s6 \in
                 {make_pub(s5) : s5 \in
                 {start_heart(s4, msg.heartbeat) : s4 \in
                 {(IF s3.exc # NoExc THEN s3 ELSE set_username(s3, msg.id)) : s3 \in
                 {provision(s2, "task", "task_stream", msg.task) : s2 \in
                 {provision(s1, "control", "control", msg.control) : s1 \in
                 {provision(e, "queue", "queue", msg.queue)}}}}}}}})
        ELSE Raise(e, "Exception")

\* variant: a failed registration drops the channels the Engine holds
cr_failure_resets(e0, msg) ==
    LET e == Only({enter(e0, msg)})
    IN  IF msg.status = MISSING THEN Raise(e, "AttributeError")
        ELSE IF msg.status = "ok" THEN
            Only({finish(s7) : s7 \in
                 {start_kernel(s6) : s6 \in
                 {make_pub(s5) : s5 \in
                 {start_heart(s4, msg.heartbeat) : s4 \in
                 {provision(s3, "task", "task_stream", msg.task) : s3 \in
                 {provision(s2, "control", "control", msg.control) : s2 \in
                 {provision(s1, "queue", "queue", msg.queue) : s1 \in
                 {set_username(e, msg.id)}}}}}}}})
        ELSE Raise([e EXCEPT !.queue = 0, !.control = 0, !.task_stream = 0],
                   "Exception")

\* The statements of the "ok" branch run from the innermost set outwards:
\* username, queue, control, task, heart, pub, kernel, print.
complete_registration(e0, msg) ==
    LET e == Only({enter(e0, msg)})
    IN  IF msg.status = MISSING THEN Raise(e, "AttributeError")
        ELSE IF msg.status = "ok" THEN
            Only({finish(s7) : s7 \in
                 {start_kernel(s6) : s6 \in
                 {make_pub(s5) : s5 \in
                 {start_heart(s4, msg.heartbeat) : s4 \in
                 {provision(s3, "task", "task_stream", msg.task) : s3 \in
                 {provision(s2, "control", "control", msg.control) : s2 \in
                 {provision(s1, "queue", "queue", msg.queue) : s1 \in
                 {set_username(e, msg.id)}}}}}}}})
        ELSE Raise(e, "Exception")

\* ------------------------------------------------------------------ inputs
IdentArgs == {"", "engine-A"}
Ids ==
    {[k |-> "int", n |-> 12, s |-> <<>>],
     [k |-> "str", n |-> 0, s |-> <<"7">>],
     [k |-> "str", n |-> 0, s |-> <<"x">>],
     [k |-> "str", n |-> 0, s |-> <<"\t", "7", "\n">>],
     [k |-> "missing", n |-> 0, s |-> <<>>]}
AddrsOf(role) == {MISSING, "", GoodAddr(role), BadAddr}
Hbs ==
    {[k |-> "missing", v |-> <<>>],
     [k |-> "none", v |-> <<>>],
     [k |-> "list", v |-> <<"tcp://hb-in", "tcp://hb-out">>]}

\* complete_registration reads id, queue, control, task, heartbeat in this order;
\* Stops(r, i) says that the i-th read finds no such key.
Stops(r, i) ==
    CASE i = 1 -> r.id.k = "missing"
      [] i = 2 -> r.queue = MISSING
      [] i = 3 -> r.control = MISSING
      [] i = 4 -> r.task = MISSING
      [] OTHER -> FALSE
Absent(r, i) ==
    CASE i = 2 -> r.queue = MISSING
      [] i = 3 -> r.control = MISSING
      [] i = 4 -> r.task = MISSING
      [] OTHER -> r.heartbeat.k = "missing"
Unconnectable(r, i) ==
    CASE i = 2 -> r.queue = BadAddr
      [] i = 3 -> r.control = BadAddr
      [] i = 4 -> r.task = BadAddr
      [] OTHER -> FALSE
Valid(r, i) ==
    CASE i = 2 -> r.queue = GoodAddr("queue")
      [] i = 3 -> r.control = GoodAddr("control")
      [] i = 4 -> r.task = GoodAddr("task")
      [] OTHER -> r.heartbeat.k = "list"
\* The callback raises at the first missing key and at the first address that
\* cannot be connected. A reply that lacks a key is drawn once, with the keys
\* behind the first missing one left out as well; behind an address that cannot
\* be connected the reply either ends or gives every later field a valid value.
Canonical(r) ==
    \A i \in 1..4 :
        /\ Stops(r, i) => \A j \in (i + 1)..5 : Absent(r, j)
        /\ Unconnectable(r, i) =>
            \/ \A j \in (i + 1)..5 : Absent(r, j)
            \/ \A j \in (i + 1)..5 : Valid(r, j)

\* How the id reads and how the addresses read are independent in the callback:
\* the addresses vary in full under the id "7"; under every other id the reply
\* gives all of them, valid, or none.
Plain(r) ==
    \/ r.id = [k |-> "str", n |-> 0, s |-> <<"7">>]
    \/ \A j \in 2..5 : Valid(r, j)
    \/ \A j \in 2..5 : Absent(r, j)

Replies ==
    {r \in [status : {"ok"}, id : Ids, queue : AddrsOf("queue"),
            control : AddrsOf("control"), task : AddrsOf("task"), heartbeat : Hbs]
        : Canonical(r) /\ Plain(r)}
\* what the controller may put in the status field; MISSING: no status key
Statuses == {"ok", "error", MISSING}

RegAddr == "tcp://registrar"

\* ----------------------------------------------------------------- actions
\* main(): the registrar socket is made and connected, then Engine.__init__;
\* what the construction leaves, whatever heart_id it was given
EngineInit ==
    /\ \E a \in IdentArgs : ident = IF a # "" THEN a ELSE Uuid
    /\ ctlReply \in Replies
    /\ on_recv = FALSE
    /\ sent = <<>>
    /\ inflight = <<>>
    /\ username = DefaultUsername
    /\ queue = 0 /\ control = 0 /\ task_stream = 0
    /\ heart = NoHeart
    /\ kernel = NoKernel
    /\ sockets = <<[role |-> "registrar", identity |-> "", peer |-> RegAddr]>>
    /\ log = <<>>
    /\ exc = NoExc
    /\ alive = TRUE
    /\ exit_code = 0
    /\ dc = TRUE
    /\ calls = 0
    /\ ticks = <<>>
    /\ sleeping = FALSE

\* main() gives the Engine no heart_id
Init == EngineInit /\ heart_id = ""

\* an Engine constructed with any heart_id, for a reply that gives the id "7" and
\* the heartbeat addresses
HeartIdArgs == {"", "engine-A", "hb-X"}
CtorInit ==
    /\ EngineInit
    /\ heart_id \in HeartIdArgs
    /\ ctlReply.id = [k |-> "str", n |-> 0, s |-> <<"7">>]
    /\ ctlReply.heartbeat.k = "list"

Delivered == Cardinality({i \in 1..Len(log) : log[i].op = "complete_registration"})

\* variant: the heartbeat field carries the heart_id argument, which is not given
register_heart_id ==
    /\ on_recv' = TRUE
    /\ sent' = Append(sent, [type |-> "registration_request",
                             content |-> [queue |-> ident, heartbeat |-> "",
                                          control |-> ident]])
    /\ exc' = NoExc
    /\ UNCHANGED <<sleeping, heart_id, ticks, ident, inflight, ctlReply, username, queue, control, task_stream,
                   heart, kernel, sockets, log, alive, exit_code>>

\* variant: register() connects a fresh registrar socket for each request
register_reconnects ==
    /\ on_recv' = TRUE
    /\ sockets' = Append(sockets, [role |-> "registrar", identity |-> "",
                                   peer |-> RegAddr])
    /\ sent' = Append(sent, [type |-> "registration_request",
                             content |-> [queue |-> ident, heartbeat |-> ident,
                                          control |-> ident]])
    /\ exc' = NoExc
    /\ UNCHANGED <<sleeping, heart_id, ticks, ident, inflight, ctlReply, username, queue, control, task_stream,
                   heart, kernel, log, alive, exit_code>>

\* Engine.register
register ==
    /\ on_recv' = TRUE
    /\ sent' = Append(sent, [type |-> "registration_request",
                             content |-> [queue |-> ident, heartbeat |-> ident,
                                          control |-> ident]])
    /\ exc' = NoExc
    /\ UNCHANGED <<sleeping, heart_id, ticks, ident, inflight, ctlReply, username, queue, control, task_stream,
                   heart, kernel, sockets, log, alive, exit_code>>

\* Engine.start, run once by the DelayedCallback of main
Start ==
    /\ alive /\ ~sleeping /\ dc
    /\ dc' = FALSE
    /\ register
    /\ UNCHANGED calls

\* register() called by any other caller
Register ==
    /\ alive /\ ~sleeping /\ calls < MaxCalls
    /\ calls' = calls + 1
    /\ register
    /\ UNCHANGED dc

\* the controller writes a message to the registrar channel
ControllerSend ==
    /\ alive /\ sent # <<>>
    /\ Delivered + Len(inflight) < MaxMsgs
    /\ \E st \in Statuses : inflight' = Append(inflight, [ctlReply EXCEPT !.status = st])
    /\ UNCHANGED <<sleeping, heart_id, ticks, ident, on_recv, sent, ctlReply, username, queue, control, task_stream,
                   heart, kernel, sockets, log, exc, alive, exit_code, dc, calls>>

\* The loop reads a message from the registrar stream and runs the callback that
\* on_recv registered. The Engine never takes the callback off the stream, never
\* stops the loop and has no handler around the callback: an exception raised in
\* it is the loop's to report, and the process goes on running the loop.
Deliver ==
    /\ alive /\ ~sleeping /\ on_recv /\ inflight # <<>>
    /\ \E r \in {complete_registration(Self, Head(inflight))} :
           /\ username' = r.username
           /\ queue' = r.queue
           /\ control' = r.control
           /\ task_stream' = r.task_stream
           /\ heart' = r.heart
           /\ kernel' = r.kernel
           /\ sockets' = r.sockets
           /\ log' = r.log
           /\ exc' = r.exc
    /\ inflight' = Tail(inflight)
    /\ UNCHANGED <<sleeping, heart_id, ticks, ident, on_recv, sent, ctlReply, alive, exit_code, dc, calls>>

\* variant: the notice is sent and the method returns to its caller
unregister_returns(send_ok) ==
    LET n == PyInt(username)
    IN  IF ~n.ok THEN
            /\ exc' = "ValueError"
            /\ UNCHANGED <<sent, sleeping>>
        ELSE IF ~send_ok THEN
            /\ exc' = "SendError"
            /\ UNCHANGED <<sent, sleeping>>
        ELSE
            /\ sent' = Append(sent, [type |-> "unregistration_request",
                                     content |-> [id |-> n.v]])
            /\ exc' = NoExc
            /\ UNCHANGED sleeping

\* Engine.unregister up to time.sleep(1); send_ok: session.send returns (it
\* raises otherwise, and so does int() of a username that is no number)
unregister(send_ok) ==
    LET n == PyInt(username)
    IN  IF ~n.ok THEN
            /\ exc' = "ValueError"
            /\ UNCHANGED <<sent, sleeping>>
        ELSE IF ~send_ok THEN
            /\ exc' = "SendError"
            /\ UNCHANGED <<sent, sleeping>>
        ELSE
            /\ sent' = Append(sent, [type |-> "unregistration_request",
                                     content |-> [id |-> n.v]])
            /\ exc' = NoExc
            /\ sleeping' = TRUE

\* variant: unregister() shuts the channel sockets before it sleeps
Unregister_closes_channels ==
    /\ alive /\ ~sleeping
    /\ \E send_ok \in BOOLEAN : unregister(send_ok)
    /\ sockets' = [i \in DOMAIN sockets |->
                      IF sockets[i].role \in {"queue", "control", "task"}
                      THEN [sockets[i] EXCEPT !.peer = ""] ELSE sockets[i]]
    /\ UNCHANGED <<heart_id, ticks, ident, on_recv, inflight, ctlReply, username, queue,
                   control, task_stream, heart, kernel, log, alive, exit_code, dc, calls>>

\* unregister() is called. The Engine's methods run on the thread of the loop:
\* while this call sleeps, no other method of the Engine and no callback runs.
Unregister ==
    /\ alive /\ ~sleeping
    /\ \E send_ok \in BOOLEAN : unregister(send_ok)
    /\ UNCHANGED <<heart_id, ticks, ident, on_recv, inflight, ctlReply, username, queue,
                   control, task_stream, heart, kernel, sockets, log, alive, exit_code,
                   dc, calls>>

\* time.sleep(1) is over: sys.exit(0). During the sleep the process, its sockets
\* and its Heart were alive, and the controller could write to the registrar.
SleepAndExit ==
    /\ alive /\ sleeping
    /\ sleeping' = FALSE
    /\ exc' = "SystemExit"
    /\ alive' = FALSE
    /\ exit_code' = 0
    /\ UNCHANGED <<heart_id, ticks, ident, on_recv, sent, inflight, ctlReply, username,
                   queue, control, task_stream, heart, kernel, sockets, log, dc, calls>>

Next == Start \/ Register \/ ControllerSend \/ Deliver \/ Unregister \/ SleepAndExit

Spec == Init /\ [][Next]_vars

\* The loop runs what is ready: the delayed start and the dispatch of a message
\* that has arrived. Nothing obliges the controller to write, or anyone to call
\* register() or unregister(); an unregister() that sleeps wakes up and exits.
FairSpec == Spec /\ WF_vars(Start) /\ WF_vars(Deliver) /\ WF_vars(SleepAndExit)

CtorSpec == CtorInit /\ [][Next]_vars

\* --------------------------------------------------------- the Heart's timer
\* variant: a send that failed stops the timer
HeartTick_stops_on_failure ==
    /\ alive /\ heart.started
    /\ Len(ticks) < MaxTicks
    /\ \A i \in 1..Len(ticks) : ticks[i]
    /\ \E pulse_sent \in BOOLEAN : ticks' = Append(ticks, pulse_sent)
    /\ UNCHANGED <<ident, on_recv, sent, inflight, ctlReply, username, queue, control,
                   task_stream, heart, kernel, sockets, log, exc, alive, exit_code,
                   dc, calls, heart_id, sleeping>>

\* One tick of the started Heart: it sends a pulse, or the send fails. The Heart
\* runs on its own timer: a tick changes nothing of the Engine, and a failed send
\* is left to the next tick.
HeartTick ==
    /\ alive /\ heart.started
    /\ Len(ticks) < MaxTicks
    /\ \E pulse_sent \in BOOLEAN : ticks' = Append(ticks, pulse_sent)
    /\ UNCHANGED <<ident, on_recv, sent, inflight, ctlReply, username, queue, control,
                   task_stream, heart, kernel, sockets, log, exc, alive, exit_code,
                   dc, calls, heart_id, sleeping>>

\* The Engine with its Heart, for a reply that gives every address.
HeartInit ==
    /\ Init
    /\ ctlReply.queue = GoodAddr("queue") /\ ctlReply.control = GoodAddr("control")
    /\ ctlReply.task = GoodAddr("task") /\ ctlReply.heartbeat.k = "list"
HeartNext == Next \/ HeartTick
HeartSpec == HeartInit /\ [][HeartNext]_vars

\* ------------------------------------------------------------ vocabulary
ChannelRoles == {"queue", "control", "task"}
ChannelSockets(ss) == {i \in 1..Len(ss) : ss[i].role \in ChannelRoles}
RolesOpened(ss) == {ss[i].role : i \in ChannelSockets(ss)}
OkDelivered == \E i \in 1..Len(log) : log[i] = Ev("complete_registration", "ok", "")
Requests(type) == {i \in 1..Len(sent) : sent[i].type = type}

\* The states of the registration state machine, read off the Engine: TERMINATED
\* once the process has exited; UNREGISTERING while unregister() sleeps;
\* otherwise RUNNING or FAILED after a callback that returned or raised;
\* REGISTERING once a request is out; INIT before.
EngineState ==
    IF ~alive THEN "TERMINATED"
    ELSE IF sleeping THEN "UNREGISTERING"
    ELSE IF log # <<>> THEN (IF log[Len(log)].op = "return" THEN "RUNNING" ELSE "FAILED")
    ELSE IF sent # <<>> THEN "REGISTERING"
    ELSE "INIT"

\* a reply that is well formed but for addresses left empty
WellFormed(msg) ==
    /\ msg.status = "ok"
    /\ msg.id.k # "missing"
    /\ msg.queue \in {"", GoodAddr("queue")}
    /\ msg.control \in {"", GoodAddr("control")}
    /\ msg.task \in {"", GoodAddr("task")}
    /\ msg.heartbeat.k = "list"
Present(msg) ==
    {r \in ChannelRoles :
        (IF r = "queue" THEN msg.queue ELSE IF r = "control" THEN msg.control
         ELSE msg.task) # ""}

\* ------------------------------------------------------------------ claims
\* C1: for every well-formed "ok" reply and every subset of {queue, control, task}
\* whose address is present and non-empty, the callback opens exactly those
\* channels and returns with the kernel started, also when an address is absent.
C1_AnySubsetCompletes ==
    [][(Deliver /\ WellFormed(Head(inflight))) =>
        /\ {sockets'[i].role : i \in ChannelSockets(sockets') \ ChannelSockets(sockets)}
              = Present(Head(inflight))
        /\ exc' = NoExc
        /\ kernel'.started]_vars

\* C2: a reply whose status is not "ok" puts the Engine in FAILED and opens no
\* socket: when only the registrar existed before, only the registrar exists after.
C2_NotOkFailsAndOpensNothing ==
    [][(Deliver /\ Head(inflight).status # "ok") =>
        /\ EngineState' = "FAILED"
        /\ exc' # NoExc
        /\ sockets' = sockets
        /\ (Len(sockets) = 1 => ChannelSockets(sockets') = {})]_vars
C2_Witness ==
    /\ EngineState = "FAILED"
    /\ log = <<Ev("complete_registration", "error", ""), Ev("raise", "Exception", "")>>
    /\ Len(sockets) = 1
    /\ ctlReply.queue = GoodAddr("queue")

\* C3: every queue, control or task socket was created by a callback whose
\* message had status "ok"; none exists in INIT or REGISTERING.
C3_ChannelsOnlyAfterOk ==
    /\ \A i \in 1..Len(log) :
          (log[i].op = "socket" /\ log[i].a \in ChannelRoles) =>
              \E j \in 1..(i - 1) :
                  /\ log[j] = Ev("complete_registration", "ok", "")
                  /\ \A k \in (j + 1)..(i - 1) : log[k].op # "complete_registration"
    /\ Cardinality(ChannelSockets(sockets))
          = Cardinality({i \in 1..Len(log) :
                            log[i].op = "socket" /\ log[i].a \in ChannelRoles})
    /\ EngineState \in {"INIT", "REGISTERING"} => ChannelSockets(sockets) = {}
C3_Witness ==
    /\ RolesOpened(sockets) = ChannelRoles
    /\ \E i \in 1..Len(log) : log[i].a = "error"

\* C4: after a reply with a status other than "ok" has been dispatched, the
\* process eventually exits with a non-zero status.
C4_FailureTerminates ==
    (\E i \in 1..Len(log) : log[i].op = "complete_registration" /\ log[i].a # "ok")
        ~> (~alive /\ exit_code # 0)

\* C5: while no reply has been dispatched, at most one registration_request has
\* been sent, however often register() is called.
C5_OneRequestOutstanding ==
    Delivered = 0 => Cardinality(Requests("registration_request")) <= 1

\* C6: the callback has run at most once for each registration request sent.
C6_CallbackOncePerAttempt ==
    Delivered <= Cardinality(Requests("registration_request"))
\* one request, and the callback has returned twice: two kernels were started
C6_Witness ==
    /\ Cardinality(Requests("registration_request")) = 1
    /\ Cardinality({i \in 1..Len(log) : log[i].op = "return"}) = 2
    /\ Cardinality({i \in 1..Len(log) : log[i].op = "kernel.start"}) = 2
    /\ Cardinality(ChannelSockets(sockets)) = 6

\* C7: a callback that raises leaves nothing behind: username, channel attributes,
\* heart, kernel and sockets are as before it, and the Engine is FAILED.
C7_RaiseKeepsNothing ==
    [][(Deliver /\ exc' # NoExc) =>
        /\ EngineState' = "FAILED"
        /\ username' = username
        /\ <<queue', control', task_stream'>> = <<queue, control, task_stream>>
        /\ heart' = heart
        /\ sockets' = sockets]_vars

\* C8: the Engine does not stay in REGISTERING for ever: it leaves that state
\* also when no reply arrives.
C8_RegisteringEnds ==
    (EngineState = "REGISTERING") ~> (EngineState # "REGISTERING")

\* C9: an unregister() that reaches its send (the username is the assigned number)
\* and whose send returns has put exactly one unregistration_request on the
\* registrar stream; it then sleeps, sending and reading nothing, and the sleep
\* ends in the exit of the process with code 0, whether or not a message is
\* waiting on the registrar.
C9_UnregisterSendsOnceAndExits ==
    [][/\ (Unregister /\ PyInt(username).ok /\ exc' # "SendError") =>
            /\ Len(sent') = Len(sent) + 1
            /\ SubSeq(sent', 1, Len(sent)) = sent
            /\ sent'[Len(sent')].type = "unregistration_request"
            /\ Cardinality({i \in 1..Len(sent') :
                                sent'[i].type = "unregistration_request"}) = 1
            /\ sleeping' /\ alive'
            /\ inflight' = inflight /\ log' = log
       /\ sleeping =>
            /\ ENABLED SleepAndExit
            /\ sent' = sent /\ log' = log
            /\ alive' => sleeping'
            /\ ~alive' => exit_code' = 0
       /\ SleepAndExit => (~alive' /\ exit_code' = 0 /\ inflight' = inflight)]_vars
C9_Witness ==
    /\ ~alive /\ exit_code = 0
    /\ EngineState = "TERMINATED"
    /\ kernel.started
    /\ inflight = <<>>
    /\ Cardinality(Requests("unregistration_request")) = 1

\* the integer an id stands for, written out for the ids of Ids
IdValue(id) ==
    CASE id.k = "int" -> id.n
      [] id.k = "str" /\ id.s = <<"7">> -> 7
      [] id.k = "str" /\ id.s = <<"\t", "7", "\n">> -> 7
      [] OTHER -> -1

\* C10: every unregistration_request on the registrar stream has the content
\* {id: n}, n being the integer value of the id of the "ok" reply.
C10_UnregistrationCarriesAssignedId ==
    \A i \in Requests("unregistration_request") :
        /\ OkDelivered
        /\ IdValue(ctlReply.id) >= 0
        /\ sent[i].content = [id |-> IdValue(ctlReply.id)]
C10_Witness ==
    /\ ctlReply.id.k = "int"
    /\ \E i \in Requests("unregistration_request") : sent[i].content.id = 12
    /\ username = <<"1", "2">>

\* C11: an unregister() whose send raises does not send again and still goes on
\* to its sleep and the exit of the process.
C11_FailedSendStillExits ==
    [][(Unregister /\ exc' = "SendError") => (sent' = sent /\ sleeping')]_vars
\* the send raised after an "ok" reply: the process is still running
C11_Witness ==
    /\ exc = "SendError" /\ alive /\ ~sleeping
    /\ kernel.started
    /\ Requests("unregistration_request") = {}

\* the entries of the log that one call of complete_registration wrote: i and j
\* are in the same call when no call begins after the earlier of the two
SameCall(i, j) ==
    \A m \in (IF i < j THEN (i + 1)..j ELSE (j + 1)..i) :
        log[m].op # "complete_registration"
IsChannelStep(ev) ==
    \/ ev.op \in {"setsockopt", "connect"}
    \/ ev.op = "socket" /\ ev.a \in ChannelRoles
RoleAddr(role) ==
    CASE role = "queue" -> ctlReply.queue
      [] role = "control" -> ctlReply.control
      [] OTHER -> ctlReply.task

\* C12: in every call of complete_registration the Heart is started after the
\* queue, control and task channels have been provisioned (every address the
\* reply gives has been connected, and no channel step follows the start of the
\* Heart) and before the kernel is started; a call that returns has started both.
C12_HeartBetweenChannelsAndKernel ==
    /\ \A i \in 1..Len(log) : log[i].op = "heart.start" =>
        /\ \A j \in (i + 1)..Len(log) :
               SameCall(i, j) => ~IsChannelStep(log[j])
        /\ \A role \in ChannelRoles : RoleAddr(role) = GoodAddr(role) =>
               \E j \in 1..(i - 1) :
                   SameCall(j, i) /\ log[j] = Ev("connect", role, GoodAddr(role))
        /\ \A j \in 1..(i - 1) : SameCall(j, i) => log[j].op # "kernel.start"
    /\ \A k \in 1..Len(log) : log[k].op \in {"kernel.start", "return"} =>
           \E i \in 1..(k - 1) : SameCall(i, k) /\ log[i].op = "heart.start"
C12_Witness ==
    /\ RolesOpened(sockets) = ChannelRoles
    /\ heart.started /\ kernel.started
    /\ \E i, k \in 1..Len(log) :
           i < k /\ log[i].op = "heart.start" /\ log[k].op = "kernel.start"

\* C13: the kernel is started only in a call that received status "ok" and has
\* finished provisioning, and in no state is the kernel started while the Engine
\* is in INIT, REGISTERING or FAILED.
C13_KernelOnlyWhenProvisioned ==
    /\ \A k \in 1..Len(log) : log[k].op = "kernel.start" =>
        /\ \E j \in 1..(k - 1) :
               SameCall(j, k) /\ log[j] = Ev("complete_registration", "ok", "")
        /\ \A j \in (k + 1)..Len(log) : SameCall(k, j) => ~IsChannelStep(log[j])
    /\ kernel.started => EngineState \notin {"INIT", "REGISTERING", "FAILED"}
\* the kernel was started by a first reply and a later message made the callback raise
C13_Witness ==
    /\ kernel.started /\ EngineState = "FAILED"
    /\ Delivered = 2

AddrOf(msg, role) ==
    CASE role = "queue" -> msg.queue
      [] role = "control" -> msg.control
      [] OTHER -> msg.task
\* an "ok" reply that has every key, one address of which cannot be connected
OneChannelFails(msg) ==
    /\ msg.status = "ok"
    /\ msg.id.k # "missing"
    /\ \A role \in ChannelRoles : AddrOf(msg, role) # MISSING
    /\ \E role \in ChannelRoles : AddrOf(msg, role) = BadAddr

\* C14: when one of the queue, control and task channels cannot be opened (its
\* connect raises), the other channels whose address the reply gives are still
\* attempted: the call connects each of them.
C14_FailedChannelDoesNotStopOthers ==
    [][(Deliver /\ OneChannelFails(Head(inflight))) =>
        \A role \in ChannelRoles :
            AddrOf(Head(inflight), role) = GoodAddr(role) =>
                \E j \in (Len(log) + 1)..Len(log') :
                    log'[j] = Ev("connect", role, GoodAddr(role))]_vars
\* the connect of the queue raised and the control address of the reply was never used
C14_Witness ==
    /\ exc = "ZMQError"
    /\ ctlReply.queue = BadAddr /\ ctlReply.control = GoodAddr("control")
    /\ "control" \notin RolesOpened(sockets)
    /\ Delivered = 1

\* the reply {status: "ok", id: "7", queue: <address>, control: <address>} that has
\* neither a task nor a heartbeat key
ReplyWithoutTaskAndHeartbeat ==
    [status |-> "ok", id |-> [k |-> "str", n |-> 0, s |-> <<"7">>],
     queue |-> GoodAddr("queue"), control |-> GoodAddr("control"),
     task |-> MISSING, heartbeat |-> [k |-> "missing", v |-> <<>>]]

\* C15: the reply with status "ok", id "7", a queue and a control address and no
\* task and no heartbeat key takes the Engine to RUNNING with the queue and the
\* control channel open, no task channel, and the kernel started.
C15_ReplyWithoutTaskRuns ==
    [][(Deliver /\ Head(inflight) = ReplyWithoutTaskAndHeartbeat /\ Delivered = 0) =>
        /\ EngineState' = "RUNNING"
        /\ RolesOpened(sockets') = {"queue", "control"}
        /\ task_stream' = 0
        /\ kernel'.started]_vars
\* that reply was dispatched: both channels are open, the read of the task key raised
C15_Witness ==
    /\ ctlReply = ReplyWithoutTaskAndHeartbeat
    /\ Delivered = 1
    /\ RolesOpened(sockets) = {"queue", "control"}
    /\ exc = "AttributeError"
    /\ ~kernel.started /\ ~heart.started

RegistrationRequest ==
    [type |-> "registration_request",
     content |-> [queue |-> ident, heartbeat |-> ident, control |-> ident]]

\* C16: start() sends one registration request, and so does every call of
\* register(); its queue, heartbeat and control fields all equal the Engine's
\* ident; the call returns with the request out and no reply consumed.
C16_OneRequestWithIdent ==
    [][/\ (Start \/ Register) =>
            /\ sent' = Append(sent, RegistrationRequest)
            /\ inflight' = inflight /\ log' = log
            /\ exc' = NoExc /\ alive'
       /\ Cardinality({i \in 1..Len(sent') : sent'[i] = RegistrationRequest})
            = (IF dc' THEN 0 ELSE 1) + calls'
       /\ Requests("registration_request")
            = {i \in 1..Len(sent) : sent[i] = RegistrationRequest}]_vars
\* start() has sent the request and no reply has been dispatched
C16_Witness ==
    /\ ~dc /\ calls = 0
    /\ sent = <<RegistrationRequest>>
    /\ on_recv /\ log = <<>>

RegistrarSockets(ss) == {i \in 1..Len(ss) : ss[i].role = "registrar"}

\* C17: the registrar socket is opened once, before every other socket, and no
\* step of the Engine opens another one or changes it: it is the first socket,
\* connected to the registrar address, and the only one of its role.
C17_RegistrarOpenedOnce ==
    /\ RegistrarSockets(sockets) = {1}
    /\ sockets[1] = [role |-> "registrar", identity |-> "", peer |-> RegAddr]
\* channels were opened by two dispatches and register() was called again
C17_Witness ==
    /\ Delivered = 2 /\ calls = 1 /\ ~dc
    /\ Cardinality(ChannelSockets(sockets)) > 3

\* C18: an unregistration notice is sent only from RUNNING; a call of unregister()
\* while the Engine is in INIT or REGISTERING sends nothing and does not end the
\* process.
C18_UnregisterOnlyFromRunning ==
    [][Unregister =>
        /\ EngineState \in {"INIT", "REGISTERING"} => (sent' = sent /\ alive')
        /\ sent' # sent => EngineState = "RUNNING"]_vars
\* the notice went out and the process exited although the last callback had raised
C18_Witness ==
    /\ ~alive /\ exit_code = 0
    /\ Requests("unregistration_request") # {}
    /\ log # <<>> /\ log[Len(log)].op = "raise"
    /\ ~kernel.started

\* C19: once the channels have been handed to the kernel (RUNNING, and the
\* unregistration that may follow), no step of the Engine touches a queue,
\* control or task socket that exists: each keeps its identity and its peer, and
\* what the Engine sends goes out on the registrar.
C19_ChannelsLeftToKernel ==
    [][(EngineState = "RUNNING" \/ EngineState = "UNREGISTERING") =>
        /\ \A i \in ChannelSockets(sockets) :
               i <= Len(sockets') /\ sockets'[i] = sockets[i]
        /\ \A i \in (Len(sent) + 1)..Len(sent') :
               sent'[i].type \in {"registration_request", "unregistration_request"}
        /\ Len(sent') >= Len(sent)]_vars
\* unregister() ran in RUNNING: the process has exited and the channels are as they were
C19_Witness ==
    /\ ~alive
    /\ kernel.started
    /\ log[Len(log)].op = "return"
    /\ RolesOpened(sockets) = ChannelRoles
    /\ \A i \in ChannelSockets(sockets) : sockets[i].peer = GoodAddr(sockets[i].role)

\* C20: the started Heart keeps ticking after a tick whose send failed: the failed
\* send neither stops the Heart nor ends the process, and the next tick is due.
\* (The process ends only by unregister(), which sends its notice first.)
C20_HeartSurvivesFailedSend ==
    /\ ticks # <<>> => heart.started
    /\ (\E i \in 1..Len(ticks) : ~ticks[i]) =>
        /\ ~alive => (exc = "SystemExit" /\ Requests("unregistration_request") # {})
        /\ (alive /\ Len(ticks) < MaxTicks) => ENABLED HeartTick
\* a pulse went out on the tick after the one whose send failed
C20_Witness ==
    /\ alive /\ heart.started
    /\ \E i \in 1..(Len(ticks) - 1) : ~ticks[i] /\ ticks[i + 1]

\* C21: every connect of a queue, control or task socket comes right after the
\* setsockopt that gave this socket the Engine's ident, which comes right after
\* the socket was made; every channel socket, connected or not, carries ident.
C21_TaggedBeforeConnect ==
    /\ \A j \in 1..Len(log) : log[j].op = "connect" =>
        /\ log[j].a \in ChannelRoles
        /\ j > 2
        /\ log[j - 1] = Ev("setsockopt", log[j].a, ident)
        /\ log[j - 2] = Ev("socket", log[j].a, "")
    /\ \A i \in ChannelSockets(sockets) : sockets[i].identity = ident
\* the three channels are connected under the ident given on the command line
C21_Witness ==
    /\ ident = "engine-A"
    /\ RolesOpened(sockets) = ChannelRoles
    /\ \A i \in ChannelSockets(sockets) :
           sockets[i].peer = GoodAddr(sockets[i].role) /\ sockets[i].identity = ident
    /\ \E j \in 1..Len(log) : log[j] = Ev("connect", "task", GoodAddr("task"))

\* the callback has raised "Registration Failed" for a reply whose status is not "ok"
FailedByStatus == \E i \in 1..Len(log) : log[i] = Ev("raise", "Exception", "")

\* C22: once a reply whose status is not "ok" has put the Engine in FAILED, no
\* later step opens a socket, starts the Heart or starts the kernel.
C22_FailedStaysAborted ==
    [][FailedByStatus =>
        (sockets' = sockets /\ heart' = heart /\ kernel' = kernel)]_vars
\* the first message failed the registration and the second one provisioned the Engine
C22_Witness ==
    /\ Len(log) > 2
    /\ log[1] = Ev("complete_registration", "error", "")
    /\ log[2] = Ev("raise", "Exception", "")
    /\ RolesOpened(sockets) = ChannelRoles
    /\ heart.started /\ kernel.started

\* the one identity is what every use of it shows
IdentUsedEverywhere ==
    /\ \A i \in Requests("registration_request") :
           sent[i].content = [queue |-> ident, heartbeat |-> ident, control |-> ident]
    /\ \A i \in ChannelSockets(sockets) : sockets[i].identity = ident
    /\ \A j \in 1..Len(log) :
           log[j].op \in {"setsockopt", "heart.start"} => log[j].b = ident
    /\ heart.set => heart.heart_id = ident

\* C23: ident is the value given at construction, or the generated token when
\* none (or an empty one) is given; no step changes it; the registration request,
\* every channel socket and the Heart carry that same value.
C23_IdentFixed ==
    [][/\ ident' = ident
       /\ ident \in (IdentArgs \ {""}) \cup {Uuid}
       /\ IdentUsedEverywhere
       /\ IdentUsedEverywhere']_vars
\* no ident was given: the generated token is in the request, on the sockets, in the Heart
C23_Witness ==
    /\ ident = Uuid
    /\ Requests("registration_request") # {}
    /\ RolesOpened(sockets) = ChannelRoles
    /\ heart.started /\ heart.heart_id = Uuid
    /\ Delivered = 2

SocketsOfRole(ss, role) == {i \in 1..Len(ss) : ss[i].role = role}

\* C24: after any sequence of registrar messages each of the queue, control and
\* task roles has been opened at most once, and a channel attribute that holds a
\* socket is never given another one.
C24_EachRoleOpenedOnce ==
    [][/\ \A role \in ChannelRoles : Cardinality(SocketsOfRole(sockets', role)) <= 1
       /\ queue # 0 => queue' = queue
       /\ control # 0 => control' = control
       /\ task_stream # 0 => task_stream' = task_stream]_vars
\* two replies were dispatched: two queue sockets exist and self.queue is the second
C24_Witness ==
    /\ Delivered = 2
    /\ Cardinality(SocketsOfRole(sockets, "queue")) = 2
    /\ queue # 0
    /\ \E i \in SocketsOfRole(sockets, "queue") : i < queue
    /\ kernel.started /\ kernel.queue = queue

\* the string form of an id, written out for the ids of Ids
IdString(id) ==
    CASE id.k = "int" /\ id.n = 12 -> <<"1", "2">>
      [] id.k = "str" -> id.s
      [] OTHER -> <<>>

\* C25: the dispatch of an "ok" reply that holds an id sets session.username to
\* the string form of the id, and does so before it makes any socket; no other
\* step changes the username.
C25_UsernameSetFirst ==
    [][/\ (Deliver /\ Head(inflight).status = "ok" /\ Head(inflight).id.k # "missing") =>
            /\ username' = IdString(Head(inflight).id)
            /\ log'[Len(log) + 2] = Ev("username", "", "")
            /\ \A j \in (Len(log) + 1)..Len(log') :
                   log'[j].op \in {"socket", "setsockopt", "connect"} => j > Len(log) + 2
       /\ username' # username =>
            (Deliver /\ Head(inflight).status = "ok")]_vars
\* the integer id 12 became the username "12" and the channels were opened after it
C25_Witness ==
    /\ username = <<"1", "2">>
    /\ Len(log) > 3
    /\ log[2] = Ev("username", "", "")
    /\ log[3].op = "socket"
    /\ RolesOpened(sockets) = ChannelRoles

\* C26: every socket the Engine's code has made is a registrar, queue, control or
\* task socket.
C26_OnlyFourRoles ==
    \A i \in 1..Len(sockets) : sockets[i].role \in {"registrar"} \cup ChannelRoles
\* the callback returned: a PUB socket, never connected, is among the sockets
C26_Witness ==
    /\ kernel.started
    /\ log[Len(log)].op = "return"
    /\ \E i \in 1..Len(sockets) :
           sockets[i] = [role |-> "pub", identity |-> "", peer |-> ""]

Calls(op) == {j \in 1..Len(log) : log[j].op = op}

\* C27: after any sequence of register() calls and registrar messages the Heart
\* has been started at most once and the kernel has been started at most once.
C27_HeartAndKernelStartedOnce ==
    /\ Cardinality(Calls("heart.start")) <= 1
    /\ Cardinality(Calls("kernel.start")) <= 1
\* two ok replies were dispatched: two Hearts and two kernels have been started
C27_Witness ==
    /\ Cardinality(Calls("heart.start")) = 2
    /\ Cardinality(Calls("kernel.start")) = 2
    /\ alive

\* C28: the dispatch of a message whose status is not "ok" changes none of
\* session.username, heart, kernel, queue, control and task_stream.
C28_NotOkChangesNothing ==
    [][(Deliver /\ Head(inflight).status # "ok") =>
        /\ username' = username
        /\ heart' = heart /\ kernel' = kernel
        /\ queue' = queue /\ control' = control /\ task_stream' = task_stream]_vars
\* an "error" message was dispatched to an Engine that a first reply had provisioned
C28_Witness ==
    /\ Delivered = 2
    /\ log[Len(log)] = Ev("raise", "Exception", "")
    /\ username = <<"7">>
    /\ queue # 0 /\ control # 0 /\ task_stream # 0
    /\ heart.started /\ kernel.started

\* C29: whatever heart_id the Engine was constructed with, the heart_id the Heart
\* is given and the heartbeat field of every registration request are both the
\* Engine's ident, and so equal each other.
C29_HeartIdIsIdent ==
    /\ \A i \in Requests("registration_request") :
           /\ sent[i].content.heartbeat = ident
           /\ heart.set => heart.heart_id = sent[i].content.heartbeat
    /\ heart.set => heart.heart_id = ident
    /\ \A j \in Calls("heart.start") : log[j].b = ident
\* the Engine was constructed with another heart_id and its Heart runs under ident
C29_Witness ==
    /\ heart_id = "hb-X" /\ ident = "engine-A"
    /\ heart.started /\ heart.heart_id = "engine-A"
    /\ \E i \in Requests("registration_request") :
           sent[i].content.heartbeat = "engine-A"

====
